---- MODULE Spec2Model ----
(***************************************************************************)
(* State-machine model of bin/scram-j-cli.py: one invocation of main().    *)
(*                                                                         *)
(* Text that the program or urllib inspects character by character (the    *)
(* prompt, the standard input, the system prompt, the endpoint URL) is a   *)
(* sequence of Unicode code points; text that is only compared, looked up  *)
(* or concatenated (model names, session ids, backend strings, exception   *)
(* messages, output lines) is a string.  A parsed JSON value is a tagged   *)
(* record.  All strings of the model are ASCII without quotes or           *)
(* backslashes, so json.dumps never has to escape and ensure_ascii makes   *)
(* no difference.                                                          *)
(***************************************************************************)
EXTENDS Integers, Sequences, FiniteSets, TLC

VARIABLES ENDPOINT, backend, args, stdin, pc, prompt, model, messages, req,
          data, output, stdout, exit_status, uncaught, urlopen_calls

vars == <<ENDPOINT, backend, args, stdin, pc, prompt, model, messages, req,
          data, output, stdout, exit_status, uncaught, urlopen_calls>>

(***************************************************************************)
(* Bounds of the model.                                                    *)
(***************************************************************************)
\* system prompts are supplied with up to MaxOver characters beyond a budget
MaxOver == 1
\* a choices list has at most MaxChoices elements
MaxChoices == 2

(***************************************************************************)
(* Program constants.                                                      *)
(***************************************************************************)
MAX_SYSTEM_PROMPT_CHARS == 800
MAX_SYSTEM_PROMPT_DUAL == 4000

MODEL_MAP ==
  [k \in {"default", "dual", "scram-j", "direct", "nemotron"} |->
     CASE k = "default"  -> "dual-9b"
       [] k = "dual"     -> "dual-9b"
       [] k = "scram-j"  -> "scram-j"
       [] k = "direct"   -> "responder-direct"
       [] k = "nemotron" -> "nemotron-direct"]

(***************************************************************************)
(* Optional values (Python None or a value).                               *)
(***************************************************************************)
None == [some |-> FALSE]
Some(v) == [some |-> TRUE, v |-> v]

(***************************************************************************)
(* Parsed JSON values, as json.loads returns them.                         *)
(***************************************************************************)
JStr(s) == [t |-> "str", s |-> s]
JNum(n) == [t |-> "num", n |-> n]
JNaN == [t |-> "nan"]
JNull == [t |-> "null"]
JList(l) == [t |-> "list", l |-> l]
\* a dict keeps its keys in insertion order
JObj(keys, vals) == [t |-> "obj", keys |-> keys, vals |-> vals]
EmptyObj == JObj(<<>>, <<>>)

HasKey(d, k) == \E i \in 1..Len(d.keys) : d.keys[i] = k

\* dict.get(k, default)
Get(d, k, default) ==
  IF HasKey(d, k)
  THEN d.vals[CHOOSE i \in 1..Len(d.keys) : d.keys[i] = k]
  ELSE default

\* bool(v)
Truthy(v) ==
  CASE v.t = "str"  -> v.s # ""
    [] v.t = "num"  -> v.n # 0
    [] v.t = "nan"  -> TRUE
    [] v.t = "null" -> FALSE
    [] v.t = "list" -> Len(v.l) > 0
    [] v.t = "obj"  -> Len(v.keys) > 0


RECURSIVE HasNaN(_)
\* json.dumps writes a float NaN as the bare token NaN, which is not JSON
HasNaN(v) ==
  CASE v.t = "nan"  -> TRUE
    [] v.t = "list" -> \E i \in 1..Len(v.l) : HasNaN(v.l[i])
    [] v.t = "obj"  -> \E i \in 1..Len(v.vals) : HasNaN(v.vals[i])
    [] OTHER        -> FALSE

RECURSIVE Dumps(_), DumpItems(_), DumpPairs(_, _)
\* json.dumps(v) with the default separators ", " and ": "
Dumps(v) ==
  CASE v.t = "str"  -> "\"" \o v.s \o "\""
    [] v.t = "num"  -> ToString(v.n)
    [] v.t = "nan"  -> "NaN"
    [] v.t = "null" -> "null"
    [] v.t = "list" -> "[" \o DumpItems(v.l) \o "]"
    [] v.t = "obj"  -> "{" \o DumpPairs(v.keys, v.vals) \o "}"

DumpItems(l) ==
  IF l = <<>> THEN ""
  ELSE IF Len(l) = 1 THEN Dumps(l[1])
  ELSE Dumps(l[1]) \o ", " \o DumpItems(Tail(l))

DumpPairs(keys, vals) ==
  IF keys = <<>> THEN ""
  ELSE IF Len(keys) = 1 THEN "\"" \o keys[1] \o "\": " \o Dumps(vals[1])
  ELSE "\"" \o keys[1] \o "\": " \o Dumps(vals[1]) \o ", "
         \o DumpPairs(Tail(keys), Tail(vals))

(***************************************************************************)
(* Character-level text.                                                   *)
(***************************************************************************)
\* the code points str.strip() removes: those with str.isspace()
Whitespace ==
  (9..13) \cup (28..32) \cup {133, 160, 5760} \cup (8192..8202)
  \cup {8232, 8233, 8239, 8287, 12288}

\* str.lstrip(): the text from its first character that is not whitespace
LStrip(s) ==
  IF \A i \in 1..Len(s) : s[i] \in Whitespace THEN <<>>
  ELSE SubSeq(s, CHOOSE i \in 1..Len(s) :
                   s[i] \notin Whitespace
                   /\ \A j \in 1..(i - 1) : s[j] \in Whitespace,
              Len(s))

\* str.rstrip(): the text up to its last character that is not whitespace
RStrip(s) ==
  IF \A i \in 1..Len(s) : s[i] \in Whitespace THEN <<>>
  ELSE SubSeq(s, 1, CHOOSE i \in 1..Len(s) :
                      s[i] \notin Whitespace
                      /\ \A j \in (i + 1)..Len(s) : s[j] \in Whitespace)

\* str.strip()
Strip(s) == RStrip(LStrip(s))

\* sp[:n]
Slice(sp, n) == SubSeq(sp, 1, IF Len(sp) < n THEN Len(sp) ELSE n)

\* a text of n characters
Text(n) == [i \in 1..n |-> 97 + (i % 3)]

\* chr(c) for an ASCII letter, a digit and - . / :
Chr(c) ==
  CASE c \in 48..57  -> <<"0", "1", "2", "3", "4", "5", "6", "7", "8", "9">>[c - 47]
    [] c \in 65..90  -> <<"A", "B", "C", "D", "E", "F", "G", "H", "I", "J", "K", "L", "M",
                          "N", "O", "P", "Q", "R", "S", "T", "U", "V", "W", "X", "Y", "Z">>[c - 64]
    [] c \in 97..122 -> <<"a", "b", "c", "d", "e", "f", "g", "h", "i", "j", "k", "l", "m",
                          "n", "o", "p", "q", "r", "s", "t", "u", "v", "w", "x", "y", "z">>[c - 96]
    [] c = 45 -> "-"
    [] c = 46 -> "."
    [] c = 47 -> "/"
    [] c = 58 -> ":"

RECURSIVE Str(_)
\* the string of a sequence of such code points, built by halves
Str(s) ==
  IF s = <<>> THEN ""
  ELSE IF Len(s) = 1 THEN Chr(s[1])
  ELSE Str(SubSeq(s, 1, Len(s) \div 2)) \o Str(SubSeq(s, Len(s) \div 2 + 1, Len(s)))

\* str.lower() on ASCII text
Lower(s) == [i \in 1..Len(s) |-> IF s[i] \in 65..90 THEN s[i] + 32 ELSE s[i]]

\* the least index of s whose character is in S, 0 when there is none
FirstIn(s, S) ==
  IF \E i \in 1..Len(s) : s[i] \in S
  THEN CHOOSE i \in 1..Len(s) : s[i] \in S /\ \A j \in 1..(i - 1) : s[j] \notin S
  ELSE 0

\* s.rfind(c), counted from 1, 0 when c is not in s
LastOf(s, c) ==
  IF \E i \in 1..Len(s) : s[i] = c
  THEN CHOOSE i \in 1..Len(s) : s[i] = c /\ \A j \in (i + 1)..Len(s) : s[j] # c
  ELSE 0

\* s[i:], with i counted from 1
From(s, i) == SubSeq(s, i, Len(s))

(***************************************************************************)
(* Model resolution and the request builder.                               *)
(***************************************************************************)
\* a wrong resolver: an unknown alias falls back to the default model
ResolveDefaulting(alias) ==
  IF alias \in DOMAIN MODEL_MAP THEN MODEL_MAP[alias] ELSE MODEL_MAP["default"]

\* MODEL_MAP.get(alias, alias)
Resolve(alias) ==
  IF alias \in DOMAIN MODEL_MAP THEN MODEL_MAP[alias] ELSE alias

\* a wrong budget: only dual-9b counts as a long-context model
MaxSpDualOnly(m) ==
  IF m = "dual-9b" THEN MAX_SYSTEM_PROMPT_DUAL ELSE MAX_SYSTEM_PROMPT_CHARS

\* the system prompt budget of a resolved model
MaxSp(m) ==
  IF m \in {"dual-9b", "nemotron-direct"}
  THEN MAX_SYSTEM_PROMPT_DUAL ELSE MAX_SYSTEM_PROMPT_CHARS

\* the system prompt as sent: cut to the budget when longer
Truncate(sp, m) == IF Len(sp) > MaxSp(m) THEN Slice(sp, MaxSp(m)) ELSE sp

Message(role, content) == [role |-> role, content |-> content]

\* a wrong builder: the system message is appended after the user message
MessagesUserFirst(sysp, m, p) ==
  <<Message("user", p)>>
  \o (IF sysp.some /\ sysp.v # <<>>
      THEN <<Message("system", Truncate(sysp.v, m))>> ELSE <<>>)

\* the message list built for a system prompt option, a model and a prompt
Messages(sysp, m, p) ==
  (IF sysp.some /\ sysp.v # <<>>
   THEN <<Message("system", Truncate(sysp.v, m))>> ELSE <<>>)
  \o <<Message("user", p)>>

(***************************************************************************)
(* Exceptions: a class name and str(e).                                    *)
(***************************************************************************)
NoExc == [cls |-> "", msg |-> ""]
Exc(cls, msg) == [cls |-> cls, msg |-> msg]

\* isinstance(e, urllib.error.URLError); HTTPError is a subclass of URLError
IsURLError(e) == e.cls \in {"URLError", "HTTPError"}

\* the characters an endpoint of the model is made of: ASCII letters,
\* digits and - . / :
EndpointAlphabet == (48..57) \cup (65..90) \cup (97..122) \cup {45, 46, 47, 58}

\* "/v1/chat/completions"
CompletionsPath == <<47, 118, 49, 47, 99, 104, 97, 116, 47, 99, 111, 109, 112, 108, 101, 116, 105, 111, 110, 115>>

\* line 62
Url(endpoint) == endpoint \o CompletionsPath

\* urllib.parse.unwrap(url): strip, then drop a leading "URL:" and strip
\* (the <...> form needs a final ">", which the path suffix rules out)
Unwrap(url) ==
  LET u == Strip(url)
  IN  IF Len(u) >= 4 /\ SubSeq(u, 1, 4) = <<85, 82, 76, 58>>
      THEN Strip(From(u, 5)) ELSE u

\* Request.full_url
FullUrl(endpoint) == Unwrap(Url(endpoint))

\* urllib.parse._splittype(url): the scheme is a non-empty run of characters
\* other than / and : at the start of the URL that is followed by a colon
SplitType(url) ==
  LET i == FirstIn(url, {47, 58})
  IN  IF i > 1 /\ url[i] = 58
      THEN [some |-> TRUE, scheme |-> Lower(SubSeq(url, 1, i - 1)),
            rest |-> From(url, i + 1)]
      ELSE [some |-> FALSE]

\* urllib.parse._splithost(rest): the host is what follows a leading // up
\* to the next /
SplitHost(rest) ==
  IF Len(rest) >= 2 /\ rest[1] = 47 /\ rest[2] = 47
  THEN LET r == From(rest, 3)
           i == FirstIn(r, {47})
       IN  Some(IF i = 0 THEN r ELSE SubSeq(r, 1, i - 1))
  ELSE None

\* sys.int_info.default_max_str_digits: the longest digit text int() converts
IntMaxStrDigits == 4300

\* the digits of an int() literal: the text without a leading minus sign
Digits(text) == IF text # <<>> /\ text[1] = 45 THEN Tail(text) ELSE text

\* int(text) succeeds: an optional sign, then at least one digit and at most
\* IntMaxStrDigits of them, leading zeros counted
IsInt(text) ==
  LET d == Digits(text)
  IN  /\ d # <<>>
      /\ Len(d) <= IntMaxStrDigits
      /\ \A i \in 1..Len(d) : d[i] \in 48..57

\* a numeral without its leading zeros, <<>> for zero; the digits are
\* decimal digits or lower-case hexadecimal digits
Significant(d) ==
  LET i == FirstIn(d, (49..57) \cup (97..102))
  IN  IF i = 0 THEN <<>> ELSE From(d, i)

\* the absolute value of an int() literal as digits without leading zeros
Magnitude(text) == Significant(Digits(text))

\* a > b, for two numerals of one base without leading zeros
Greater(a, b) ==
  \/ Len(a) > Len(b)
  \/ /\ Len(a) = Len(b)
     /\ \E i \in 1..Len(a) : a[i] > b[i] /\ \A j \in 1..(i - 1) : a[j] = b[j]

\* the int() literal is below zero
Negative(text) == text # <<>> /\ text[1] = 45 /\ Magnitude(text) # <<>>

\* 2^63 - 1 and 2^63, the magnitudes of the ends of a C long
LongMax == <<57, 50, 50, 51, 51, 55, 50, 48, 51, 54, 56, 53, 52, 55, 55, 53, 56, 48, 55>>
LongMin == <<57, 50, 50, 51, 51, 55, 50, 48, 51, 54, 56, 53, 52, 55, 55, 53, 56, 48, 56>>

RECURSIVE Low32(_)
\* the low 32 bits of a magnitude in decimal digits, as two 16-bit halves
Low32(m) ==
  IF m = <<>> THEN [hi |-> 0, lo |-> 0]
  ELSE LET r == Low32(SubSeq(m, 1, Len(m) - 1))
           l == r.lo * 10 + (m[Len(m)] - 48)
       IN  [hi |-> (r.hi * 10 + l \div 65536) % 65536, lo |-> l % 65536]

\* http.client.HTTPConnection._get_hostport(host): the host name is what
\* precedes the last colon, the port text what follows it
HostName(host) ==
  LET i == LastOf(host, 58)
  IN  IF i > 0 THEN SubSeq(host, 1, i - 1) ELSE host

\* <<>> when the default port of the scheme is used
PortText(host) ==
  LET i == LastOf(host, 58)
  IN  IF i > 0 THEN From(host, i + 1) ELSE <<>>

\* _get_hostport: a port text that is not empty must be an integer
PortExc(host) ==
  LET t == PortText(host)
  IN  IF t # <<>> /\ ~IsInt(t)
      THEN Exc("InvalidURL", "nonnumeric port: '" \o Str(t) \o "'")
      ELSE NoExc

\* name.encode("idna") of an ASCII name, as socket.getaddrinfo applies it
\* to name.split("."): every label but the last has 1 to 63 characters, the
\* last at most 63.  A label but the last ends at a dot: it is empty when
\* the dot is first or follows a dot, too long when the 64 characters
\* before the dot have no dot.
IdnaExc(name) ==
  LET n    == Len(name)
      dots == {i \in 1..n : name[i] = 46}
  IN  IF \E i \in dots :
           \/ i = 1
           \/ i > 1 /\ name[i - 1] = 46
           \/ i > 64 /\ \A j \in (i - 64)..(i - 1) : name[j] # 46
      THEN Exc("UnicodeError",
               "encoding with 'idna' codec failed (UnicodeError: label empty or too long)")
      ELSE IF n - LastOf(name, 46) >= 64
      THEN Exc("UnicodeError",
               "encoding with 'idna' codec failed (UnicodeError: label too long)")
      ELSE NoExc

\* socket.getaddrinfo(name, port) for an integer port: the port must fit a
\* C long; the resolver reads its decimal text into a C int, keeping the low
\* 32 bits, and refuses a service number below zero
ServiceExc(port) ==
  LET m   == Magnitude(port)
      neg == Negative(port)
      w   == Low32(m)
  IN  IF Greater(m, IF neg THEN LongMin ELSE LongMax)
      THEN Exc("OverflowError", "Python int too large to convert to C long")
      ELSE IF \/ ~neg /\ w.hi >= 32768
              \/ neg /\ w.hi < 32768 /\ (w.hi # 0 \/ w.lo # 0)
              \/ neg /\ w.hi = 32768 /\ w.lo = 0
      THEN Exc("URLError",
               "<urlopen error [Errno -8] Servname not supported for ai_socktype>")
      ELSE NoExc

RECURSIVE Split(_, _)
\* s.split(c)
Split(s, c) ==
  LET i == FirstIn(s, {c})
  IN  IF i = 0 THEN <<s>>
      ELSE <<SubSeq(s, 1, i - 1)>> \o Split(From(s, i + 1), c)

\* the number of dots of a name
Dots(name) == Cardinality({i \in 1..Len(name) : name[i] = 46})

HexDigits == (48..57) \cup (65..70) \cup (97..102)

\* a part of an IPv4 address as inet_aton reads it with strtoul(part, &end, 0):
\* 0x and hexadecimal digits, 0 and octal digits, or a decimal numeral; the
\* whole part must be read
Numeral(part) ==
  IF /\ Len(part) >= 3
     /\ part[1] = 48
     /\ part[2] \in {88, 120}
     /\ \A i \in 3..Len(part) : part[i] \in HexDigits
  THEN Some([base |-> 16, digits |-> Lower(From(part, 3))])
  ELSE IF part # <<>> /\ part[1] = 48 /\ \A i \in 2..Len(part) : part[i] \in 48..55
  THEN Some([base |-> 8, digits |-> Tail(part)])
  ELSE IF part # <<>> /\ part[1] \in 49..57 /\ \A i \in 1..Len(part) : part[i] \in 48..57
  THEN Some([base |-> 10, digits |-> part])
  ELSE None

\* 256^k - 1 as a numeral of the base
ByteLimit(base, k) ==
  CASE base = 8 /\ k = 1 -> <<51, 55, 55>>
    [] base = 8 /\ k = 2 -> <<49, 55, 55, 55, 55, 55>>
    [] base = 8 /\ k = 3 -> <<55, 55, 55, 55, 55, 55, 55, 55>>
    [] base = 8 /\ k = 4 -> <<51, 55, 55, 55, 55, 55, 55, 55, 55, 55, 55>>
    [] base = 10 /\ k = 1 -> <<50, 53, 53>>
    [] base = 10 /\ k = 2 -> <<54, 53, 53, 51, 53>>
    [] base = 10 /\ k = 3 -> <<49, 54, 55, 55, 55, 50, 49, 53>>
    [] base = 10 /\ k = 4 -> <<52, 50, 57, 52, 57, 54, 55, 50, 57, 53>>
    [] base = 16 /\ k = 1 -> <<102, 102>>
    [] base = 16 /\ k = 2 -> <<102, 102, 102, 102>>
    [] base = 16 /\ k = 3 -> <<102, 102, 102, 102, 102, 102>>
    [] base = 16 /\ k = 4 -> <<102, 102, 102, 102, 102, 102, 102, 102>>

\* inet_aton(name): one to four parts; every part but the last is one byte
\* and the last fills the bytes that remain
IsIPv4(name) ==
  /\ Dots(name) <= 3
  /\ LET parts == Split(name, 46)
         n     == Len(parts)
     IN  \A k \in 1..n :
           /\ Numeral(parts[k]).some
           /\ ~Greater(Significant(Numeral(parts[k]).v.digits),
                       ByteLimit(Numeral(parts[k]).v.base,
                                 IF k = n THEN 5 - n ELSE 1))

\* inet_pton(AF_INET, text): four decimal parts of one to three digits,
\* none above 255, none with a leading zero
Pton4(text) ==
  /\ Dots(text) = 3
  /\ \A part \in {Split(text, 46)[k] : k \in 1..4} :
       /\ Len(part) \in 1..3
       /\ \A i \in 1..Len(part) : part[i] \in 48..57
       /\ Len(part) > 1 => part[1] # 48
       /\ ~Greater(part, ByteLimit(10, 1))

\* the ending of inet_pton(AF_INET6, ...): with a :: fewer than eight
\* groups were read, without one exactly eight
Pton6End(groups, colon) == IF colon THEN groups < 8 ELSE groups = 8

RECURSIVE Pton6(_, _, _, _, _, _)
\* the loop of inet_pton(AF_INET6, s) at s[i]: tok is where the current
\* group began, seen the hexadecimal digits read of it, groups the 16-bit
\* groups stored, colon whether a :: was read
Pton6(s, i, tok, seen, groups, colon) ==
  IF i > Len(s)
  THEN IF seen > 0 THEN groups < 8 /\ Pton6End(groups + 1, colon)
       ELSE Pton6End(groups, colon)
  ELSE IF s[i] \in HexDigits
  THEN seen < 4 /\ Pton6(s, i + 1, tok, seen + 1, groups, colon)
  ELSE IF s[i] = 58
  THEN IF seen = 0
       THEN ~colon /\ Pton6(s, i + 1, i + 1, 0, groups, TRUE)
       ELSE i < Len(s) /\ groups < 8 /\ Pton6(s, i + 1, i + 1, 0, groups + 1, colon)
  ELSE /\ s[i] = 46
       /\ groups + 2 <= 8
       /\ Pton4(From(s, tok))
       /\ Pton6End(groups + 2, colon)

\* inet_pton(AF_INET6, name): a leading colon must begin a ::
IsIPv6(name) ==
  /\ name # <<>>
  /\ IF name[1] = 58
     THEN Len(name) >= 2 /\ name[2] = 58 /\ Pton6(name, 2, 2, 0, 0, FALSE)
     ELSE Pton6(name, 1, 1, 0, 0, FALSE)

\* the longest host name the resolver looks up, a final dot not counted
MaxNameLen == 253

\* what the resolver makes of a host name over EndpointAlphabet: a numeric
\* address is used as it is; a name that is empty, begins with a hyphen,
\* has a colon or is too long is refused without being looked up; any
\* other name is looked up
HostKind(name) ==
  IF IsIPv4(name) \/ IsIPv6(name) THEN "address"
  ELSE IF \/ name = <<>>
          \/ name[1] = 45
          \/ \E i \in 1..Len(name) : name[i] = 58
          \/ Len(name) - (IF name[Len(name)] = 46 THEN 1 ELSE 0) > MaxNameLen
  THEN "refused"
  ELSE "name"

\* what socket.create_connection raises for the host name and the port text
\* of a URL before it connects: the name is encoded, the port is converted,
\* the resolver checks the service and then the name
AddrInfoExc(name, port) ==
  IF IdnaExc(name) # NoExc THEN IdnaExc(name)
  ELSE IF port # <<>> /\ ServiceExc(port) # NoExc THEN ServiceExc(port)
  ELSE IF HostKind(name) = "refused"
  THEN Exc("URLError", "<urlopen error [Errno -2] Name or service not known>")
  ELSE NoExc

\* the endpoint is text over EndpointAlphabet
OverAlphabet(endpoint) ==
  \A i \in 1..Len(endpoint) : endpoint[i] \in EndpointAlphabet

\* urllib.request.Request(url, ...): a URL without a scheme is rejected.
\* Defined for endpoints over EndpointAlphabet.
RequestExc(endpoint) ==
  CASE OverAlphabet(endpoint) ->
    IF SplitType(FullUrl(endpoint)).some THEN NoExc
    ELSE Exc("ValueError",
             "unknown url type: '" \o Str(FullUrl(endpoint)) \o "'")

\* what the default opener raises for a URL before any connection is made,
\* with no proxy configured.  Defined for the schemes other than file and
\* ftp, whose handlers read the local file system and an FTP server.
OpenExc(url) ==
  LET t      == SplitType(url)
      scheme == Str(t.scheme)
      host   == SplitHost(t.rest)
  IN  CASE ~t.some -> NoExc
        [] t.some /\ scheme \in {"http", "https"} ->
             IF ~host.some \/ host.v = <<>>
             THEN Exc("URLError", "<urlopen error no host given>")
             ELSE IF PortExc(host.v) # NoExc THEN PortExc(host.v)
             ELSE AddrInfoExc(HostName(host.v), PortText(host.v))
        [] t.some /\ scheme = "data" ->
             Exc("ValueError", "not enough values to unpack (expected 2, got 1)")
        [] t.some /\ scheme \notin {"http", "https", "data", "file", "ftp"} ->
             Exc("URLError", "<urlopen error unknown url type: " \o scheme \o ">")

\* what urlopen raises for the URL itself, before the backend is contacted.
\* Defined for endpoints over EndpointAlphabet whose scheme is not file or
\* ftp.
UrlExc(endpoint) ==
  CASE OverAlphabet(endpoint) -> OpenExc(FullUrl(endpoint))

\* the host name of an http or https endpoint is one the resolver looks up
LookedUp(endpoint) ==
  LET t    == SplitType(FullUrl(endpoint))
      host == SplitHost(t.rest)
  IN  t.some /\ host.some /\ HostKind(HostName(host.v)) = "name"

\* Request.type, "" when the URL has no scheme
Scheme(endpoint) ==
  LET t == SplitType(FullUrl(endpoint))
  IN  IF t.some THEN Str(t.scheme) ELSE ""

\* what urlopen, resp.read(), decode and json.loads raise for a backend
\* reached through the endpoint; a read that times out on a TLS socket has
\* a message of its own.  A name lookup can fail only for a host name that
\* is looked up: kind dns has no value for a numeric address.
BackendExc(endpoint, b) ==
  CASE b.kind = "refused"
         -> Exc("URLError", "<urlopen error [Errno 111] Connection refused>")
    [] b.kind = "dns" /\ LookedUp(endpoint)
         -> Exc("URLError",
                "<urlopen error [Errno -2] Name or service not known>")
    [] b.kind = "connect_timeout"
         -> Exc("URLError", "<urlopen error timed out>")
    [] b.kind = "http_500"
         -> Exc("HTTPError", "HTTP Error 500: Internal Server Error")
    [] b.kind = "read_timeout"
         -> Exc("TimeoutError",
                IF Scheme(endpoint) = "https"
                THEN "The read operation timed out" ELSE "timed out")
    [] b.kind = "bad_utf8"
         -> Exc("UnicodeDecodeError",
                "'utf-8' codec can't decode byte 0xff in position 0: invalid start byte")
    [] b.kind = "bad_json"
         -> Exc("JSONDecodeError",
                "Expecting value: line 1 column 1 (char 0)")
    [] b.kind = "ok" -> NoExc

\* the exception raised inside the try block, if any
TryExc(endpoint, b) ==
  IF UrlExc(endpoint) # NoExc THEN UrlExc(endpoint)
  ELSE BackendExc(endpoint, b)

\* the event of an except branch
ErrorEvent(prefix, e) ==
  JObj(<<"item">>,
       <<JObj(<<"text", "type">>, <<JStr(prefix \o e.msg), JStr("message")>>)>>)

(***************************************************************************)
(* The response normalizer.                                                *)
(***************************************************************************)
Value(v) == [exc |-> "", val |-> v]
Raise(cls) == [exc |-> cls, val |-> JNull]

\* v[0]; a string of the model has at most one character, so s[0] is s
Subscript0(v) ==
  CASE v.t = "list" -> IF v.l = <<>> THEN Raise("IndexError") ELSE Value(v.l[1])
    [] v.t = "str"  -> IF v.s = "" THEN Raise("IndexError") ELSE Value(v)
    [] v.t = "obj"  -> Raise("KeyError")
    [] OTHER        -> Raise("TypeError")

\* x.get(k, default) on any value: only a dict has get
GetAttr(x, k, default) ==
  IF x.t = "obj" THEN Value(Get(x, k, default)) ELSE Raise("AttributeError")

\* choice = data.get("choices", [{}])[0]
Choice(d) ==
  LET c == GetAttr(d, "choices", JList(<<EmptyObj>>))
  IN  IF c.exc # "" THEN c ELSE Subscript0(c.val)

\* content = choice.get("message", {}).get("content", "(no response)")
Content(d) ==
  LET ch == Choice(d)
      m  == IF ch.exc # "" THEN ch ELSE GetAttr(ch.val, "message", EmptyObj)
  IN  IF m.exc # "" THEN m
      ELSE GetAttr(m.val, "content", JStr("(no response)"))

\* usage = data.get("usage", {})
Usage(d) == GetAttr(d, "usage", EmptyObj)

\* trace_id = data.get("scram_j", {}).get("trace_id", "")
TraceId(d) ==
  LET sj == GetAttr(d, "scram_j", EmptyObj)
  IN  IF sj.exc # "" THEN sj ELSE GetAttr(sj.val, "trace_id", JStr(""))

\* trace_id or args.session_id or ""
ThreadId(trace_id, session_id) ==
  IF Truthy(trace_id) THEN trace_id
  ELSE IF session_id.some /\ session_id.v # "" THEN JStr(session_id.v)
  ELSE JStr("")

\* the usage dict of the output event
UsageOut(u) ==
  LET i == GetAttr(u, "prompt_tokens", JNum(0))
      o == GetAttr(u, "completion_tokens", JNum(0))
      t == GetAttr(u, "total_tokens", JNum(0))
  IN  IF i.exc # "" THEN i
      ELSE Value(JObj(<<"input_tokens", "output_tokens", "total_tokens">>,
                      <<i.val, o.val, t.val>>))

\* lines 85-102 in evaluation order: the first exception, or the output dict
Normalize(d, session_id) ==
  LET c  == Content(d)
      u  == Usage(d)
      tr == TraceId(d)
      uo == IF u.exc # "" THEN u ELSE UsageOut(u.val)
  IN  IF c.exc # "" THEN c
      ELSE IF u.exc # "" THEN u
      ELSE IF tr.exc # "" THEN tr
      ELSE IF uo.exc # "" THEN uo
      ELSE Value(JObj(<<"thread_id", "item", "usage">>,
                      <<ThreadId(tr.val, session_id),
                        JObj(<<"text", "type">>, <<c.val, JStr("message")>>),
                        uo.val>>))

(***************************************************************************)
(* Inputs of an invocation.                                                *)
(***************************************************************************)
Aliases ==
  {"default", "dual", "scram-j", "direct", "nemotron",
   "Default", " dual", "dual-9b", "nemotron-direct", "gpt-4"}

SystemPromptLens ==
  {0, 3} \cup {b + d : b \in {MAX_SYSTEM_PROMPT_CHARS, MAX_SYSTEM_PROMPT_DUAL},
                       d \in 0..MaxOver}

SystemPrompts == {None} \cup {Some(Text(n)) : n \in SystemPromptLens}

\* no argument, "", two spaces, " hi"
Prompts == {None, Some(<<>>), Some(<<32, 32>>), Some(<<32, 104, 105>>)}

\* "", " \n", "\r\n", "\fyo\r\n"
Stdins == {<<>>, <<32, 10>>, <<13, 10>>, <<12, 121, 111, 13, 10>>}

SessionIds == {None, Some(""), Some("s1")}

\* "http://spark:9000"
DefaultEndpoint == <<104, 116, 116, 112, 58, 47, 47, 115, 112, 97, 114, 107, 58, 57, 48, 48, 48>>

\* SCRAM_J_ENDPOINT set to the empty string: no scheme
EmptyEndpoint == <<>>

\* besides these two: "spark", "spark:9000", "http:", "http:/spark:9000",
\* "http://", "http://spark:port", "http://spark:9000x", "HTTP://spark:",
\* "URL:https://spark", "data:x", "http://a..b", "http://" and 64 letters,
\* "http://a..b:99999999999999999999", "http://spark:99999999999999999999",
\* "http://127.0.0.1:-5", "https://spark:00443", "http://-a",
\* "http://x:80:9000", "http://:9000", "http://spark:0",
\* "http://spark:2147483648"
Endpoints ==
  {DefaultEndpoint, EmptyEndpoint,
   <<115, 112, 97, 114, 107>>,
   <<115, 112, 97, 114, 107, 58, 57, 48, 48, 48>>,
   <<104, 116, 116, 112, 58>>,
   <<104, 116, 116, 112, 58, 47, 115, 112, 97, 114, 107, 58, 57, 48, 48, 48>>,
   <<104, 116, 116, 112, 58, 47, 47>>,
   <<104, 116, 116, 112, 58, 47, 47, 115, 112, 97, 114, 107, 58, 112, 111, 114, 116>>,
   <<104, 116, 116, 112, 58, 47, 47, 115, 112, 97, 114, 107, 58, 57, 48, 48, 48, 120>>,
   <<72, 84, 84, 80, 58, 47, 47, 115, 112, 97, 114, 107, 58>>,
   <<85, 82, 76, 58, 104, 116, 116, 112, 115, 58, 47, 47, 115, 112, 97, 114, 107>>,
   <<100, 97, 116, 97, 58, 120>>,
   <<104, 116, 116, 112, 58, 47, 47, 97, 46, 46, 98>>,
   <<104, 116, 116, 112, 58, 47, 47, 97, 97, 97, 97, 97, 97, 97, 97, 97, 97, 97, 97, 97, 97, 97, 97, 97, 97, 97, 97, 97, 97, 97, 97, 97, 97, 97, 97, 97, 97, 97, 97, 97, 97, 97, 97, 97, 97, 97, 97, 97, 97, 97, 97, 97, 97, 97, 97, 97, 97, 97, 97, 97, 97, 97, 97, 97, 97, 97, 97, 97, 97, 97, 97>>,
   <<104, 116, 116, 112, 58, 47, 47, 97, 46, 46, 98, 58, 57, 57, 57, 57, 57, 57, 57, 57, 57, 57, 57, 57, 57, 57, 57, 57, 57, 57, 57, 57>>,
   <<104, 116, 116, 112, 58, 47, 47, 115, 112, 97, 114, 107, 58, 57, 57, 57, 57, 57, 57, 57, 57, 57, 57, 57, 57, 57, 57, 57, 57, 57, 57, 57, 57>>,
   <<104, 116, 116, 112, 58, 47, 47, 49, 50, 55, 46, 48, 46, 48, 46, 49, 58, 45, 53>>,
   <<104, 116, 116, 112, 115, 58, 47, 47, 115, 112, 97, 114, 107, 58, 48, 48, 52, 52, 51>>,
   <<104, 116, 116, 112, 58, 47, 47, 45, 97>>,
   <<104, 116, 116, 112, 58, 47, 47, 120, 58, 56, 48, 58, 57, 48, 48, 48>>,
   <<104, 116, 116, 112, 58, 47, 47, 58, 57, 48, 48, 48>>,
   <<104, 116, 116, 112, 58, 47, 47, 115, 112, 97, 114, 107, 58, 48>>,
   <<104, 116, 116, 112, 58, 47, 47, 115, 112, 97, 114, 107, 58, 50, 49, 52, 55, 52, 56, 51, 54, 52, 56>>}

Ok(body) == [kind |-> "ok", body |-> body]

FailureKinds ==
  {"refused", "dns", "connect_timeout", "http_500", "read_timeout",
   "bad_utf8", "bad_json"}

Failures == {[kind |-> k] : k \in FailureKinds}

Decoy == JObj(<<"message">>, <<JObj(<<"content">>, <<JStr("second")>>)>>)

FirstChoices ==
  {EmptyObj, JNum(5),
   JObj(<<"message">>, <<EmptyObj>>),
   JObj(<<"message">>, <<JStr("m")>>),
   JObj(<<"message">>, <<JObj(<<"content">>, <<JStr("hi")>>)>>),
   JObj(<<"message">>, <<JObj(<<"content">>, <<JNull>>)>>)}

ChoicesValues ==
  {JList(<<>>), EmptyObj, JStr(""), JStr("a"), JNull}
  \cup {JList(<<c>> \o [i \in 1..k |-> Decoy]) :
          c \in FirstChoices, k \in 0..(MaxChoices - 1)}

UsageValues ==
  {EmptyObj, JList(<<>>), JNull,
   JObj(<<"prompt_tokens", "completion_tokens", "total_tokens">>,
        <<JNum(3), JNum(1), JNum(4)>>),
   JObj(<<"prompt_tokens">>, <<JNum(3)>>),
   JObj(<<"total_tokens", "prompt_tokens">>, <<JNaN, JNum(0)>>)}

ScramValues ==
  {EmptyObj, JStr("x")}
  \cup {JObj(<<"trace_id">>, <<v>>) :
          v \in {JStr("abc"), JStr(""), JNum(7), JNum(0), JNull}}

\* the object has the key exactly when a value is given for it
Field(k, opt) == IF opt.some THEN <<k>> ELSE <<>>
FieldVal(opt) == IF opt.some THEN <<opt.v>> ELSE <<>>

Body(c, u, sj) ==
  JObj(Field("choices", c) \o Field("usage", u) \o Field("scram_j", sj),
       FieldVal(c) \o FieldVal(u) \o FieldVal(sj))

Opt(S) == {None} \cup {Some(v) : v \in S}

Bodies ==
  {JList(<<>>), JStr("x"), JNull, JNum(5)}
  \cup {Body(c, u, sj) :
          c \in Opt(ChoicesValues), u \in Opt(UsageValues), sj \in Opt(ScramValues)}

FullBody ==
  Body(Some(JList(<<JObj(<<"message">>, <<JObj(<<"content">>, <<JStr("hi")>>)>>)>>)),
       Some(JObj(<<"prompt_tokens", "completion_tokens", "total_tokens">>,
                 <<JNum(3), JNum(1), JNum(4)>>)),
       Some(JObj(<<"trace_id">>, <<JStr("abc")>>)))

Backends == Failures \cup {Ok(b) : b \in Bodies}

Args(m, sid, sysp, p) ==
  [model |-> m, session_id |-> sid, append_system_prompt |-> sysp, prompt |-> p]

\* every request-side input, against a backend that refuses or answers fully
RequestSweep ==
  [ENDPOINT : {DefaultEndpoint, EmptyEndpoint},
   backend  : {[kind |-> "refused"], Ok(FullBody)},
   args     : {Args(m, Some("s1"), sysp, p) :
                 m \in Aliases, sysp \in SystemPrompts, p \in Prompts},
   stdin    : Stdins]

\* every backend behaviour, for a plain prompt and each session id
ResponseSweep ==
  [ENDPOINT : {DefaultEndpoint},
   backend  : Backends,
   args     : {Args("default", sid, None, Some(<<104, 105>>)) : sid \in SessionIds},
   stdin    : {<<>>}]

\* every endpoint, for a plain prompt, against three backends
EndpointSweep ==
  [ENDPOINT : Endpoints,
   backend  : {[kind |-> "refused"], [kind |-> "read_timeout"], Ok(FullBody)},
   args     : {Args("default", Some("s1"), None, Some(<<104, 105>>))},
   stdin    : {<<>>}]

Invocations == RequestSweep \cup ResponseSweep \cup EndpointSweep

(***************************************************************************)
(* main()                                                                  *)
(***************************************************************************)
EmptyPromptLine == "{\"item\":{\"text\":\"(empty prompt)\",\"type\":\"message\"}}"

\* the state after parse_args(): nothing read, built, sent or written yet
Init ==
  /\ \E inv \in Invocations :
       /\ ENDPOINT = inv.ENDPOINT
       /\ backend = inv.backend
       /\ args = inv.args
       /\ stdin = inv.stdin
  /\ pc = "prompt"
  /\ prompt = <<>>
  /\ model = ""
  /\ messages = <<>>
  /\ req = None
  /\ data = None
  /\ output = None
  /\ stdout = <<>>
  /\ exit_status = -1
  /\ uncaught = ""
  /\ urlopen_calls = 0

\* the process ends: sys.exit(1), a return from main, or a traceback
Exit(status, exc) ==
  /\ pc' = "exit"
  /\ exit_status' = status
  /\ uncaught' = exc

Running(next) ==
  /\ pc' = next
  /\ UNCHANGED <<exit_status, uncaught>>

\* print(line, flush=True)
WriteLine(line) == stdout' = Append(stdout, line)

\* lines 35-40: the prompt from the argument or from standard input
ReadPrompt ==
  /\ pc = "prompt"
  /\ LET p == IF args.prompt.some /\ args.prompt.v # <<>>
              THEN args.prompt.v ELSE Strip(stdin)
     IN  /\ prompt' = p
         /\ IF p = <<>>
            THEN WriteLine(EmptyPromptLine) /\ Exit(0, "")
            ELSE UNCHANGED stdout /\ Running("resolve")
  /\ UNCHANGED <<ENDPOINT, backend, args, stdin, model, messages, req, data,
                 output, urlopen_calls>>

\* line 43
ResolveModel ==
  /\ pc = "resolve"
  /\ model' = Resolve(args.model)
  /\ Running("messages")
  /\ UNCHANGED <<ENDPOINT, backend, args, stdin, prompt, messages, req, data,
                 output, stdout, urlopen_calls>>

\* lines 46-54
BuildMessages ==
  /\ pc = "messages"
  /\ messages' = Messages(args.append_system_prompt, model, prompt)
  /\ Running("request")
  /\ UNCHANGED <<ENDPOINT, backend, args, stdin, prompt, model, req, data,
                 output, stdout, urlopen_calls>>

\* lines 57-68: the payload and the Request object; a ValueError of the
\* Request constructor is outside the try block
BuildRequest ==
  /\ pc = "request"
  /\ IF RequestExc(ENDPOINT) # NoExc
     THEN /\ Exit(1, RequestExc(ENDPOINT).cls)
          /\ UNCHANGED req
     ELSE /\ req' = Some([full_url |-> FullUrl(ENDPOINT), method |-> "POST",
                          payload |-> [model |-> model, messages |-> messages]])
          /\ Running("urlopen")
  /\ UNCHANGED <<ENDPOINT, backend, args, stdin, prompt, model, messages, data,
                 output, stdout, urlopen_calls>>

\* lines 70-82: the one call of urlopen, the body read and parsed, and the
\* two except branches
UrlOpen ==
  /\ pc = "urlopen"
  /\ urlopen_calls' = urlopen_calls + 1
  /\ LET e == TryExc(ENDPOINT, backend)
     IN  IF e = NoExc
         THEN /\ data' = Some(backend.body)
              /\ Running("extract")
              /\ UNCHANGED <<output, stdout>>
         ELSE /\ output' = Some(ErrorEvent(IF IsURLError(e)
                                           THEN "SCRAM-J connection error: "
                                           ELSE "SCRAM-J error: ", e))
              /\ WriteLine(Dumps(output'.v))
              /\ Exit(1, "")
              /\ UNCHANGED data
  /\ UNCHANGED <<ENDPOINT, backend, args, stdin, prompt, model, messages, req>>

\* lines 84-103: the fields extracted, the event built and printed; an
\* exception here is not caught
ExtractAndEmit ==
  /\ pc = "extract"
  /\ LET r == Normalize(data.v, args.session_id)
     IN  IF r.exc # ""
         THEN /\ Exit(1, r.exc)
              /\ UNCHANGED <<output, stdout>>
         ELSE /\ output' = Some(r.val)
              /\ WriteLine(Dumps(r.val))
              /\ Exit(0, "")
  /\ UNCHANGED <<ENDPOINT, backend, args, stdin, prompt, model, messages, req,
                 data, urlopen_calls>>

Next ==
  \/ ReadPrompt
  \/ ResolveModel
  \/ BuildMessages
  \/ BuildRequest
  \/ UrlOpen
  \/ ExtractAndEmit

Spec == Init /\ [][Next]_vars

TypeOK ==
  /\ pc \in {"prompt", "resolve", "messages", "request", "urlopen", "extract", "exit"}
  /\ exit_status \in {-1, 0, 1}
  /\ urlopen_calls \in 0..1

(***************************************************************************)
(* Vocabulary of the properties.                                           *)
(***************************************************************************)
Done == pc = "exit"

\* the text the invocation was given as its prompt, before any trimming
GivenPrompt ==
  IF args.prompt.some /\ args.prompt.v # <<>> THEN args.prompt.v ELSE stdin

\* the model has been resolved
Resolved == pc \in {"messages", "request", "urlopen", "extract"}
            \/ (Done /\ prompt # <<>>)

SysPrompt == args.append_system_prompt

\* str(e) of every exception of the model, and the uncaught classes
Details ==
  {BackendExc(e, b).msg : e \in {x \in Endpoints : LookedUp(x)}, b \in Failures}
  \cup {UrlExc(e).msg : e \in Endpoints}
  \cup {RequestExc(e).msg : e \in Endpoints}
  \cup {"AttributeError", "IndexError", "KeyError", "TypeError"}

\* the event has the one key item, whose text is the prefix and a detail
IsErrorEvent(ev, prefix, details) ==
  /\ ev.t = "obj"
  /\ ev.keys = <<"item">>
  /\ \E d \in details :
       ev.vals[1] = JObj(<<"text", "type">>, <<JStr(prefix \o d), JStr("message")>>)

\* the line on standard output is JSON text
WellFormedLine(line) ==
  \/ line = EmptyPromptLine
  \/ output.some /\ line = Dumps(output.v) /\ ~HasNaN(output.v)

IsObj(v) == v.t = "obj"

\* a value is absent from the dict or is a dict
AbsentOrObj(d, k) == HasKey(d, k) => IsObj(Get(d, k, JNull))

\* the body departs from the Chat Response shape in one of the listed ways
BadShape(body) ==
  \/ ~IsObj(body)
  \/ /\ IsObj(body)
     /\ \/ ~AbsentOrObj(body, "usage")
        \/ ~AbsentOrObj(body, "scram_j")
        \/ /\ HasKey(body, "choices")
           /\ LET c == Get(body, "choices", JNull)
              IN  \/ c.t # "list"
                  \/ c.l = <<>>
                  \/ ~IsObj(c.l[1])
                  \/ ~AbsentOrObj(c.l[1], "message")

\* a JSON object whose present fields have the documented types; choices,
\* message, content, usage, its counters, scram_j and trace_id may be missing
PartialShape(body) ==
  /\ IsObj(body)
  /\ AbsentOrObj(body, "usage")
  /\ AbsentOrObj(body, "scram_j")
  /\ HasKey(body, "choices") =>
       LET c == Get(body, "choices", JNull)
       IN  /\ c.t = "list"
           /\ \A i \in 1..Len(c.l) :
                IsObj(c.l[i]) /\ AbsentOrObj(c.l[i], "message")

\* choices[0].message.content when every step of the path exists
FoundContent(body) ==
  LET c == Get(body, "choices", JList(<<>>))
      m == IF c.l = <<>> THEN EmptyObj ELSE Get(c.l[1], "message", EmptyObj)
  IN  IF HasKey(m, "content") THEN Some(Get(m, "content", JNull)) ELSE None

\* the named token counter of the body, 0 when it or usage is missing
TokenOr0(body, k) == Get(Get(body, "usage", EmptyObj), k, JNum(0))

(***************************************************************************)
(* The claims.                                                             *)
(***************************************************************************)

\* C1: every run that has ended wrote exactly one line to standard output,
\* the line is well-formed JSON, and no exception escaped main().
C1_OneJsonLine ==
  Done => /\ Len(stdout) = 1
          /\ WellFormedLine(stdout[1])
          /\ uncaught = ""

\* C2: when the backend call completed but the body is malformed JSON or
\* departs from the Chat Response shape, the run ends with exit status 1
\* and an event that has only item, with text "SCRAM-J error: " and a detail.
C2_BadShapeIsOtherFailure ==
  (/\ Done
   /\ urlopen_calls = 1
   /\ UrlExc(ENDPOINT) = NoExc
   /\ \/ backend.kind = "bad_json"
      \/ backend.kind = "ok" /\ BadShape(backend.body))
  => /\ exit_status = 1
     /\ output.some
     /\ IsErrorEvent(output.v, "SCRAM-J error: ", Details)
     /\ stdout = <<Dumps(output.v)>>

\* C3: when the outbound call cannot complete (refused, DNS failure, a
\* timeout at any point, a malformed endpoint URL), the run ends with exit
\* status 1 and an event that has only item, with text
\* "SCRAM-J connection error: " followed by the failure detail.
C3_TransportFailure ==
  (/\ Done
   /\ prompt # <<>>
   /\ \/ RequestExc(ENDPOINT) # NoExc
      \/ UrlExc(ENDPOINT) # NoExc
      \/ backend.kind \in {"refused", "dns", "connect_timeout", "read_timeout"})
  => /\ exit_status = 1
     /\ output.some
     /\ IsErrorEvent(output.v, "SCRAM-J connection error: ",
                     {IF RequestExc(ENDPOINT) # NoExc
                      THEN RequestExc(ENDPOINT).msg
                      ELSE TryExc(ENDPOINT, backend).msg})
     /\ stdout = <<Dumps(output.v)>>

\* C4: when the given prompt (argument or standard input) is empty after
\* trimming, the run goes from reading the prompt straight to its end, the
\* output is exactly the empty-prompt line, the exit status is 0 and no
\* request is built or sent.
C4_EmptyPrompt ==
  Strip(GivenPrompt) = <<>>
  => /\ pc \in {"prompt", "exit"}
     /\ req = None
     /\ urlopen_calls = 0
     /\ Done => stdout = <<EmptyPromptLine>> /\ exit_status = 0

\* C5: on a successful response thread_id is a string; it is the backend
\* trace id when the response has one, else the session id when one was
\* given, else the empty string.
C5_ThreadId ==
  (Done /\ exit_status = 0 /\ data.some)
  => LET sj  == Get(data.v, "scram_j", EmptyObj)
         tid == Get(output.v, "thread_id", JNull)
     IN  /\ tid.t = "str"
         /\ IF HasKey(sj, "trace_id") THEN tid = Get(sj, "trace_id", JNull)
            ELSE IF args.session_id.some THEN tid = JStr(args.session_id.v)
            ELSE tid = JStr("")

\* the budget the claim assigns to an alias: 4000 for the aliases of the
\* two long-context models and for their literal identifiers, 800 otherwise
C6_Budget(alias) ==
  IF alias \in {"default", "dual", "nemotron", "dual-9b", "nemotron-direct"}
  THEN 4000 ELSE 800

\* what C6 says of the system message sent for a supplied system prompt s:
\* the budget is 4000 exactly when the resolved model is dual-9b or
\* nemotron-direct, and the content of the system message is s when len(s)
\* is at most the budget and the first budget characters of s otherwise.
C6_Content ==
  LET s == SysPrompt.v
      b == C6_Budget(args.model)
      c == messages[1].content
  IN  /\ (b = 4000) <=> (model \in {"dual-9b", "nemotron-direct"})
      /\ messages[1].role = "system"
      /\ Len(c) = (IF Len(s) <= b THEN Len(s) ELSE b)
      /\ c = SubSeq(s, 1, Len(c))
      /\ Len(s) <= b => c = s

\* C6 as stated: for every alias and every supplied system prompt s (the
\* empty string included), the system message sent holds s cut to the
\* budget of the resolved model.
C6_Original ==
  (messages # <<>> /\ SysPrompt.some) => C6_Content

\* C6 amended: for every alias and every supplied system prompt s that is
\* not empty, the system message sent holds s cut to the budget of the
\* resolved model, 4000 for dual-9b and nemotron-direct and 800 for every
\* other model; for an empty s no system message is sent.
C6_Truncation ==
  (messages # <<>> /\ SysPrompt.some)
  => IF SysPrompt.v # <<>> THEN C6_Content
     ELSE \A i \in 1..Len(messages) : messages[i].role # "system"

\* C6 witness: an unknown alias passed through unchanged had a system prompt
\* one character over the short budget cut to exactly 800 characters.
C6_Witness ==
  /\ messages # <<>>
  /\ args.model = "Default"
  /\ SysPrompt.some
  /\ Len(SysPrompt.v) = 801
  /\ messages[1].role = "system"
  /\ Len(messages[1].content) = 800

\* the user message of a built request holds the whole prompt and the model
\* field is the resolved model
C7_UserAndModel ==
  LET ms == req.v.payload.messages
  IN  /\ ms[Len(ms)] = Message("user", IF args.prompt.some /\ args.prompt.v # <<>>
                                       THEN args.prompt.v ELSE Strip(stdin))
      /\ req.v.payload.model = Resolve(args.model)

\* C7 as stated: in every built request a supplied system prompt (the empty
\* string included) gives exactly two messages, system first and user last;
\* no system prompt gives exactly one user message.
C7_Original ==
  req.some =>
    LET ms == req.v.payload.messages
    IN  /\ SysPrompt.some =>
             Len(ms) = 2 /\ ms[1].role = "system" /\ ms[2].role = "user"
        /\ ~SysPrompt.some => Len(ms) = 1 /\ ms[1].role = "user"
        /\ C7_UserAndModel

\* C7 amended: a supplied non-empty system prompt gives exactly two
\* messages, system first and user last; no system prompt or an empty one
\* gives exactly one user message; the user message holds the whole prompt
\* and the model field is the resolved model.
C7_Messages ==
  req.some =>
    LET ms == req.v.payload.messages
    IN  /\ (SysPrompt.some /\ SysPrompt.v # <<>>) =>
             Len(ms) = 2 /\ ms[1].role = "system" /\ ms[2].role = "user"
        /\ (~SysPrompt.some \/ SysPrompt.v = <<>>) =>
             Len(ms) = 1 /\ ms[1].role = "user"
        /\ C7_UserAndModel

\* C7 witness: a request was built from a system prompt over its budget and
\* has the two messages.
C7_Witness ==
  /\ req.some
  /\ SysPrompt.some
  /\ Len(SysPrompt.v) > MaxSp(model)
  /\ Len(req.v.payload.messages) = 2

\* C8: a JSON object with fields missing still ends as a success; item.text
\* is "(no response)" when choices[0].message.content cannot be found and
\* the content otherwise; each token counter is the backend's counter when
\* present and 0 otherwise.
C8_Defaults ==
  (Done /\ data.some /\ PartialShape(data.v))
  => /\ exit_status = 0
     /\ output.some
     /\ output.v.keys = <<"thread_id", "item", "usage">>
     /\ Get(output.v, "item", JNull) =
          JObj(<<"text", "type">>,
               <<IF FoundContent(data.v).some THEN FoundContent(data.v).v
                 ELSE JStr("(no response)"),
                 JStr("message")>>)
     /\ Get(output.v, "usage", JNull) =
          JObj(<<"input_tokens", "output_tokens", "total_tokens">>,
               <<TokenOr0(data.v, "prompt_tokens"),
                 TokenOr0(data.v, "completion_tokens"),
                 TokenOr0(data.v, "total_tokens")>>)

\* the resolution table as the claim lists it
C9_Table(alias) ==
  CASE alias = "default"  -> "dual-9b"
    [] alias = "dual"     -> "dual-9b"
    [] alias = "scram-j"  -> "scram-j"
    [] alias = "direct"   -> "responder-direct"
    [] alias = "nemotron" -> "nemotron-direct"
    [] OTHER              -> alias

\* C9: the resolved model is the table entry of the alias, or the alias
\* itself when it is not a table key (case and whitespace variants
\* included), and resolving the resolved model again returns it unchanged.
C9_Resolution ==
  Resolved => /\ model = C9_Table(args.model)
              /\ Resolve(model) = model

\* C9 witness: a case variant of a table key resolved to itself.
C9_Witness ==
  Resolved /\ args.model = "Default" /\ model = "Default"

\* C10: at most one request is sent, only for a non-empty prompt and before
\* anything is written; an event with thread_id and usage is written only
\* after the request returned a response and with exit status 0; exit
\* status 1 occurs only after a request was attempted.
C10_Order ==
  /\ urlopen_calls <= 1
  /\ urlopen_calls = 1 => prompt # <<>>
  /\ pc = "urlopen" => stdout = <<>> /\ urlopen_calls = 0
  /\ (output.some /\ HasKey(output.v, "thread_id")) =>
       data.some /\ urlopen_calls = 1 /\ exit_status = 0
  /\ exit_status = 1 => urlopen_calls = 1

====
